---- MODULE Spec2Model ----
(***************************************************************************)
(* Residual blocks (residual_blocks.py) and orthogonality penalties        *)
(* (utils.py) of the BigGAN building-block library.                        *)
(*                                                                         *)
(* Spec      : life cycle of one block: constructed once, then invoked     *)
(*             repeatedly on batches of one shape.  Tensors are modelled   *)
(*             by their shape and by the chain of layers that produced     *)
(*             them; layers by the state they hold (weights created or     *)
(*             not, number of moving-statistics updates).                  *)
(* SpecOrtho : the two penalty functions applied to integer weight         *)
(*             tensors, computed operation by operation.                   *)
(***************************************************************************)
EXTENDS Integers, Sequences, FiniteSets, TLC

VARIABLES block, inputs, restored, built, moving, pc, kw, bnlog, initlog,
          addops, result, w, scale, fn, loss

vars == <<block, inputs, restored, built, moving, pc, kw, bnlog, initlog,
          addops, result, w, scale, fn, loss>>

blockVars == <<block, inputs, restored, built, moving, pc, kw, bnlog, initlog,
               addops, result>>

(***************************************************************************)
(* Bounds of the model.                                                    *)
(***************************************************************************)
MaxDim == 4

MaxFilters == 1

MaxChannels == 2

MaxUpdates == 1

MaxAxis == 2

(***************************************************************************)
(* Constants of the program.                                               *)
(***************************************************************************)
DefaultKernelSide == 3

DefaultStride == 2

Expansion == 4

\* scale handed to orthogonal_initializer by the constructors, in units of 1e-4
InitScale == 1

(***************************************************************************)
(* Tensors of the forward pass: a shape and the layers applied so far, or  *)
(* the exception that was raised instead.                                  *)
(***************************************************************************)
Tensor(shape, via) == [err |-> "", shape |-> shape, via |-> via]

NoTensor == [err |-> "unset", shape |-> <<>>, via |-> <<>>]

Via(layer, mode, stats) == [layer |-> layer, mode |-> mode, stats |-> stats]

Max(a, b) == IF a >= b THEN a ELSE b

(***************************************************************************)
(* Output lengths of tf.keras.layers.Convolution2D and                     *)
(* Convolution2DTranspose along one spatial axis (dilation 1, no output    *)
(* padding).  0 stands for "no such output": the op raises.                *)
(***************************************************************************)
conv_output_length(n, k, padding, s) ==
    IF padding = "same" THEN (n + s - 1) \div s
    ELSE IF n < k THEN 0
    ELSE (n - k + 1 + s - 1) \div s

deconv_output_length(n, k, padding, s) ==
    IF padding = "same" THEN n * s
    ELSE n * s + Max(k - s, 0)

(***************************************************************************)
(* The sub-layers each constructor allocates.                              *)
(***************************************************************************)
Conv(type, filters, kernel_size, strides, padding) ==
    [type |-> type, filters |-> filters, kernel_size |-> kernel_size,
     strides |-> strides, padding |-> padding,
     kernel_initializer |-> "orgtho_init"]

Plain(type) ==
    [type |-> type, filters |-> 0, kernel_size |-> <<1, 1>>,
     strides |-> <<1, 1>>, padding |-> "same", kernel_initializer |-> ""]

\* BasicResBlockLayers with strides left out of conv1 and res_conv
BasicResBlockLayersUnstrided(filters, kernel_size, padding, strides) ==
    [conv1    |-> Conv("Conv2D", filters, kernel_size, <<1, 1>>, padding),
     bn1      |-> Plain("BN"),
     act1     |-> Plain("ReLU"),
     conv2    |-> Conv("Conv2D", filters, kernel_size, <<1, 1>>, padding),
     bn2      |-> Plain("BN"),
     res_conv |-> Conv("Conv2D", filters, <<1, 1>>, <<1, 1>>, padding),
     res_bn   |-> Plain("BN"),
     act2     |-> Plain("ReLU")]

BasicResBlockLayers(filters, kernel_size, padding, strides) ==
    [conv1    |-> Conv("Conv2D", filters, kernel_size, strides, padding),
     bn1      |-> Plain("BN"),
     act1     |-> Plain("ReLU"),
     conv2    |-> Conv("Conv2D", filters, kernel_size, <<1, 1>>, padding),
     bn2      |-> Plain("BN"),
     res_conv |-> Conv("Conv2D", filters, <<1, 1>>, strides, padding),
     res_bn   |-> Plain("BN"),
     act2     |-> Plain("ReLU")]

\* ResBottleNeckBlockLayers with filters=filters * 4 left out of conv3 and
\* res_conv
ResBottleNeckBlockLayersUnexpanded(filters, kernel_size, padding, strides) ==
    [conv1    |-> Conv("Conv2D", filters, <<1, 1>>, <<1, 1>>, padding),
     bn1      |-> Plain("BN"),
     act1     |-> Plain("ReLU"),
     conv2    |-> Conv("Conv2D", filters, kernel_size, strides, padding),
     bn2      |-> Plain("BN"),
     act2     |-> Plain("ReLU"),
     conv3    |-> Conv("Conv2D", filters, <<1, 1>>, <<1, 1>>, padding),
     bn3      |-> Plain("BN"),
     act3     |-> Plain("ReLU"),
     res_conv |-> Conv("Conv2D", filters, <<1, 1>>, strides, padding),
     res_bn   |-> Plain("BN"),
     act4     |-> Plain("ReLU")]

ResBottleNeckBlockLayers(filters, kernel_size, padding, strides) ==
    [conv1    |-> Conv("Conv2D", filters, <<1, 1>>, <<1, 1>>, padding),
     bn1      |-> Plain("BN"),
     act1     |-> Plain("ReLU"),
     conv2    |-> Conv("Conv2D", filters, kernel_size, strides, padding),
     bn2      |-> Plain("BN"),
     act2     |-> Plain("ReLU"),
     conv3    |-> Conv("Conv2D", filters * Expansion, <<1, 1>>, <<1, 1>>, padding),
     bn3      |-> Plain("BN"),
     act3     |-> Plain("ReLU"),
     res_conv |-> Conv("Conv2D", filters * Expansion, <<1, 1>>, strides, padding),
     res_bn   |-> Plain("BN"),
     act4     |-> Plain("ReLU")]

ResidualDeconvBlockLayers(filters, kernel_size, padding, strides) ==
    [bn1     |-> Plain("BN"),
     act1    |-> Plain("ReLU"),
     deconv1 |-> Conv("Conv2DT", filters, kernel_size, strides, padding),
     bn2     |-> Plain("BN"),
     act2    |-> Plain("ReLU"),
     deconv2 |-> Conv("Conv2DT", filters, kernel_size, <<1, 1>>, padding),
     bn3     |-> Plain("BN"),
     act3    |-> Plain("BN"),
     deconv3 |-> Conv("Conv2DT", filters, kernel_size, strides, padding)]

Layers(b) ==
    IF b.kind = "BasicResBlock"
    THEN BasicResBlockLayers(b.filters, b.kernel_size, b.padding, b.strides)
    ELSE IF b.kind = "ResBottleNeckBlock"
    THEN ResBottleNeckBlockLayers(b.filters, b.kernel_size, b.padding, b.strides)
    ELSE ResidualDeconvBlockLayers(b.filters, b.kernel_size, b.padding, b.strides)

LayerNames ==
    {"conv1", "conv2", "conv3", "res_conv", "deconv1", "deconv2", "deconv3",
     "bn1", "bn2", "bn3", "res_bn", "act1", "act2", "act3", "act4"}

(***************************************************************************)
(* The bodies of the three call methods, statement by statement.           *)
(* training = "flag" passes training=training; "none" passes no keyword.   *)
(***************************************************************************)
Apply(layer, src, dst, training) ==
    [op |-> "apply", layer |-> layer, src |-> src, dst |-> dst,
     training |-> training, nargs |-> 1]

TfAdd(nargs, dst) ==
    [op |-> "tf.add", layer |-> "", src |-> "", dst |-> dst,
     training |-> "none", nargs |-> nargs]

BasicResBlockCall ==
    << Apply("conv1", "inputs", "x", "none"),
       Apply("bn1", "x", "x", "flag"),
       Apply("act1", "x", "x", "none"),
       Apply("conv2", "x", "x", "none"),
       Apply("bn2", "x", "x", "flag"),
       Apply("res_conv", "inputs", "residual", "none"),
       Apply("res_bn", "residual", "residual", "flag"),
       TfAdd(2, "output"),
       Apply("act2", "output", "output", "none") >>

ResBottleNeckBlockCall ==
    << Apply("conv1", "inputs", "x", "none"),
       Apply("bn1", "x", "x", "flag"),
       Apply("act1", "x", "x", "none"),
       Apply("conv2", "x", "x", "none"),
       Apply("bn2", "x", "x", "flag"),
       Apply("act2", "x", "x", "none"),
       Apply("conv3", "x", "x", "none"),
       Apply("bn3", "x", "x", "flag"),
       Apply("act3", "x", "x", "none"),
       Apply("res_conv", "inputs", "residual", "none"),
       Apply("res_bn", "residual", "residual", "flag"),
       TfAdd(2, "output"),
       Apply("act3", "output", "output", "none") >>

ResidualDeconvBlockCall ==
    << Apply("bn1", "inputs", "x", "flag"),
       Apply("act1", "x", "x", "none"),
       Apply("deconv1", "x", "x", "none"),
       Apply("bn2", "x", "x", "flag"),
       Apply("act2", "x", "x", "none"),
       Apply("deconv2", "x", "x", "none"),
       Apply("bn3", "x", "residual", "flag"),
       Apply("act3", "residual", "residual", "none"),
       Apply("deconv3", "residual", "residual", "none"),
       TfAdd(1, "output") >>

CallBody(kind) ==
    IF kind = "BasicResBlock" THEN BasicResBlockCall
    ELSE IF kind = "ResBottleNeckBlock" THEN ResBottleNeckBlockCall
    ELSE ResidualDeconvBlockCall

\* DefaultTraining with one default, False, in all three blocks
DefaultTrainingFalse(kind) == "False"

\* kwargs.get('training', default) / kwargs.pop('training', default)
DefaultTraining(kind) ==
    IF kind = "ResidualDeconvBlock" THEN "False" ELSE "True"

TrainingFlag(kind, keyword) ==
    IF keyword = "absent" THEN DefaultTraining(kind) ELSE keyword

(***************************************************************************)
(* utils.py.  A weight is an integer tensor stored in row-major order:     *)
(* [type, shape, flat].  A scalar loss is the rational num/den, since      *)
(* tf.nn.l2_loss halves a sum of squares.                                  *)
(***************************************************************************)
WeightTensor(shape, flat) == [type |-> "Tensor", shape |-> shape, flat |-> flat]

TensorShape(shape) == [type |-> "TensorShape", shape |-> shape, flat |-> <<>>]

Scalar(num, den) == [err |-> "", num |-> num, den |-> den]

Raised(e) == [err |-> e, num |-> 0, den |-> 1]

NoLoss == Raised("unset")

RECURSIVE SumUpTo(_, _)
SumUpTo(s, n) == IF n = 0 THEN 0 ELSE s[n] + SumUpTo(s, n - 1)

Matrix(rows, cols, flat) == [rows |-> rows, cols |-> cols, flat |-> flat]

At(m, i, j) == m.flat[(i - 1) * m.cols + j]

\* tf.reshape(w, [-1, c])
reshape(t, c) == Matrix(Len(t.flat) \div c, c, t.flat)

\* tf.eye(c)
eye(c) ==
    Matrix(c, c, [n \in 1..(c * c) |->
                    IF (n - 1) \div c = (n - 1) % c THEN 1 ELSE 0])

\* tf.transpose(w)
transpose(m) ==
    Matrix(m.cols, m.rows,
           [n \in 1..(m.rows * m.cols) |->
               At(m, ((n - 1) % m.rows) + 1, ((n - 1) \div m.rows) + 1)])

\* tf.matmul(a, b)
matmul(a, b) ==
    Matrix(a.rows, b.cols,
           [n \in 1..(a.rows * b.cols) |->
               LET i == ((n - 1) \div b.cols) + 1
                   j == ((n - 1) % b.cols) + 1
               IN  SumUpTo([k \in 1..a.cols |-> At(a, i, k) * At(b, k, j)],
                           a.cols)])

\* subtract as tf.add
subtract_added(a, b) ==
    Matrix(a.rows, a.cols, [n \in 1..(a.rows * a.cols) |-> a.flat[n] + b.flat[n]])

\* tf.subtract(a, b)
subtract(a, b) ==
    Matrix(a.rows, a.cols, [n \in 1..(a.rows * a.cols) |-> a.flat[n] - b.flat[n]])

\* l2_loss without the halving: sum(t ** 2)
l2_loss_unhalved(t) ==
    Scalar(SumUpTo([n \in 1..Len(t.flat) |-> t.flat[n] * t.flat[n]],
                   Len(t.flat)), 1)

\* tf.nn.l2_loss(t) = sum(t ** 2) / 2
l2_loss(t) ==
    Scalar(SumUpTo([n \in 1..Len(t.flat) |-> t.flat[n] * t.flat[n]],
                   Len(t.flat)), 2)

Times(k, x) == Scalar(k * x.num, x.den)

\* the function orthogonal_initializer(scale) returns, applied to one
\* positional argument
orgtho_init(scale_, arg) ==
    IF arg.type # "Tensor" THEN Raised("AttributeError")
    ELSE IF Len(arg.shape) # 4 THEN Raised("ValueError")
    ELSE LET c           == arg.shape[4]
             w2          == reshape(arg, c)
             identity    == eye(c)
             w_transpose == transpose(w2)
             w_mul       == matmul(w_transpose, w2)
             reg         == subtract(w_mul, identity)
             ortho_loss  == l2_loss(reg)
         IN  Times(scale_, ortho_loss)

\* the function othrogonal_initializer_fc(scale) returns
ortho_init_fc(scale_, arg) ==
    IF arg.type # "Tensor" THEN Raised("AttributeError")
    ELSE IF Len(arg.shape) # 2 THEN Raised("ValueError")
    ELSE LET c           == arg.shape[2]
             identity    == eye(c)
             w_transpose == transpose(Matrix(arg.shape[1], c, arg.flat))
             w_mul       == matmul(w_transpose, Matrix(arg.shape[1], c, arg.flat))
             reg         == subtract(w_mul, identity)
             ortho_loss  == l2_loss(reg)
         IN  Times(scale_, ortho_loss)

\* A Python call of either function: both take exactly one positional
\* parameter, w, and no keyword.
Invoke(name, scale_, args, kwargs) ==
    IF Len(args) # 1 \/ kwargs # {} THEN Raised("TypeError")
    ELSE IF name = "orgtho_init" THEN orgtho_init(scale_, args[1])
    ELSE ortho_init_fc(scale_, args[1])

(***************************************************************************)
(* One forward pass.  c is the invocation: the block, the training keyword *)
(* and whether kernel values are pending from a restored checkpoint.  st   *)
(* is the interpreter's state: the local variables of call (reg), the      *)
(* sub-layers' state, the log of the pass and the exception raised.        *)
(***************************************************************************)
Registers == {"inputs", "x", "residual", "output"}

\* shape of the kernel a convolution creates for an input with cin channels
KernelShape(L, cin) ==
    IF L.type = "Conv2D"
    THEN <<L.kernel_size[1], L.kernel_size[2], cin, L.filters>>
    ELSE <<L.kernel_size[1], L.kernel_size[2], L.filters, cin>>

\* Layer.add_weight for the kernel at the layer's first application: the
\* value restored from a checkpoint when one is pending, otherwise
\* kernel_initializer(shape, dtype=dtype)
InitializerCall(l, L, cin) ==
    [layer |-> l, fn |-> L.kernel_initializer,
     args |-> <<TensorShape(KernelShape(L, cin))>>, kwargs |-> {"dtype"}]

BuildConv(c, st, l, L, cin) ==
    IF st.built[l] THEN st
    ELSE IF c.restored THEN [st EXCEPT !.built[l] = TRUE]
    ELSE LET call == InitializerCall(l, L, cin)
             got  == Invoke(call.fn, InitScale, call.args, call.kwargs)
         IN  IF got.err # ""
             THEN [st EXCEPT !.initlog = Append(@, call), !.raised = got.err]
             ELSE [st EXCEPT !.initlog = Append(@, call), !.built[l] = TRUE]

ConvShape(L, shape) ==
    IF L.type = "Conv2D"
    THEN <<shape[1],
           conv_output_length(shape[2], L.kernel_size[1], L.padding, L.strides[1]),
           conv_output_length(shape[3], L.kernel_size[2], L.padding, L.strides[2]),
           L.filters>>
    ELSE <<shape[1],
           deconv_output_length(shape[2], L.kernel_size[1], L.padding, L.strides[1]),
           deconv_output_length(shape[3], L.kernel_size[2], L.padding, L.strides[2]),
           L.filters>>

ApplyConv(c, st, step, L) ==
    LET t  == st.reg[step.src]
        s1 == BuildConv(c, st, step.layer, L, t.shape[4])
        sh == ConvShape(L, t.shape)
    IN  IF s1.raised # "" THEN s1
        ELSE IF sh[2] = 0 \/ sh[3] = 0 THEN [s1 EXCEPT !.raised = "ValueError"]
        ELSE [s1 EXCEPT !.reg[step.dst] =
                 Tensor(sh, Append(t.via, Via(step.layer, "-", 0)))]

\* the training argument a batch normalization is called with, and the mode
\* it then runs in: an omitted argument takes the enclosing call's keyword,
\* inference when there is none
TrainingArg(c, step) ==
    IF step.training = "flag" THEN TrainingFlag(c.block.kind, c.kw) ELSE "None"

EffectiveTraining(c, arg) ==
    IF arg # "None" THEN arg
    ELSE IF c.kw # "absent" THEN c.kw
    ELSE "False"

\* ApplyBN updating the moving statistics in inference mode too
ApplyBNAlwaysUpdating(c, st, step) ==
    LET t   == st.reg[step.src]
        l   == step.layer
        arg == TrainingArg(c, step)
        eff == EffectiveTraining(c, arg)
        out == Tensor(t.shape,
                      Append(t.via, IF eff = "True" THEN Via(l, "batch", 0)
                                    ELSE Via(l, "moving", st.moving[l])))
    IN  [st EXCEPT !.built[l] = TRUE,
                   !.bnlog = Append(@, [layer |-> l, arg |-> arg, mode |-> eff]),
                   !.moving[l] = @ + 1,
                   !.reg[step.dst] = out]

ApplyBN(c, st, step) ==
    LET t   == st.reg[step.src]
        l   == step.layer
        arg == TrainingArg(c, step)
        eff == EffectiveTraining(c, arg)
        out == Tensor(t.shape,
                      Append(t.via, IF eff = "True" THEN Via(l, "batch", 0)
                                    ELSE Via(l, "moving", st.moving[l])))
    IN  [st EXCEPT !.built[l] = TRUE,
                   !.bnlog = Append(@, [layer |-> l, arg |-> arg, mode |-> eff]),
                   !.moving[l] = IF eff = "True" THEN @ + 1 ELSE @,
                   !.reg[step.dst] = out]

ApplyReLU(st, step) ==
    LET t == st.reg[step.src]
    IN  [st EXCEPT !.reg[step.dst] =
            Tensor(t.shape, Append(t.via, Via(step.layer, "-", 0)))]

Broadcastable(a, b) == \A i \in 1..4 : a[i] = b[i] \/ a[i] = 1 \/ b[i] = 1

\* tf.add(x, y): one positional argument leaves y missing
ApplyAdd(st, step) ==
    LET x  == st.reg["x"]
        r  == st.reg["residual"]
        s1 == [st EXCEPT !.addops = <<x.shape, r.shape>>]
    IN  IF step.nargs # 2 THEN [s1 EXCEPT !.raised = "TypeError"]
        ELSE IF ~Broadcastable(x.shape, r.shape)
        THEN [s1 EXCEPT !.raised = "InvalidArgumentError"]
        ELSE [s1 EXCEPT !.reg[step.dst] =
                 Tensor([i \in 1..4 |-> Max(x.shape[i], r.shape[i])],
                        x.via \o <<Via("tf.add", "-", 0)>> \o r.via)]

ExecStep(c, st, step) ==
    IF step.op = "tf.add" THEN ApplyAdd(st, step)
    ELSE LET L == Layers(c.block)[step.layer]
         IN  IF L.type = "BN" THEN ApplyBN(c, st, step)
             ELSE IF L.type = "ReLU" THEN ApplyReLU(st, step)
             ELSE ApplyConv(c, st, step, L)

RECURSIVE Exec(_, _, _, _)
Exec(c, st, body, i) ==
    IF i > Len(body) \/ st.raised # "" THEN st
    ELSE Exec(c, ExecStep(c, st, body[i]), body, i + 1)

\* Layer.call(inputs, **kwargs) from the sub-layers' state (b, m)
Forward(c, x, b, m) ==
    Exec(c,
         [reg |-> [r \in Registers |-> IF r = "inputs" THEN Tensor(x, <<>>)
                                        ELSE NoTensor],
          built |-> b, moving |-> m, bnlog |-> <<>>, initlog |-> <<>>,
          addops |-> <<>>, raised |-> ""],
         CallBody(c.block.kind), 1)

(***************************************************************************)
(* Spec: a block after construction, and its invocations.                  *)
(***************************************************************************)
Kinds == {"BasicResBlock", "ResBottleNeckBlock", "ResidualDeconvBlock"}

Paddings == {"same", "valid"}

KernelSizes == {<<k, k>> : k \in 1..DefaultKernelSide} \cup {<<2, 3>>}

StridePairs == {<<s, s>> : s \in 1..DefaultStride} \cup {<<1, 2>>}

Keywords == {"absent", "True", "False"}

Block(kind, filters, kernel_size, padding, strides) ==
    [kind |-> kind, filters |-> filters, kernel_size |-> kernel_size,
     padding |-> padding, strides |-> strides]

Blocks ==
    {Block(k, f, ks, p, st) :
        k \in Kinds, f \in 1..MaxFilters, ks \in KernelSizes,
        p \in Paddings, st \in StridePairs}

InputShapes ==
    {<<b, h, wd, ch>> : b \in {2}, h \in 1..MaxDim, wd \in 1..MaxDim,
                        ch \in 1..MaxChannels}

\* the two scenarios with named sizes
Scenarios ==
    { <<Block("BasicResBlock", 32, <<3, 3>>, "same", <<2, 2>>), <<2, 32, 32, 16>>>>,
      <<Block("ResBottleNeckBlock", 16, <<3, 3>>, "same", <<1, 1>>), <<2, 16, 16, 64>>>> }

Setups == (Blocks \X InputShapes) \cup Scenarios

NoWeight == [shape |-> <<>>, pattern |-> "", p |-> 0, v |-> 0]

IdleBlock == Block("BasicResBlock", 1, <<1, 1>>, "same", <<1, 1>>)

Fresh(setup) ==
    /\ block = setup[1]
    /\ inputs = setup[2]
    /\ restored = FALSE
    /\ built = [l \in LayerNames |-> FALSE]
    /\ moving = [l \in LayerNames |-> 0]
    /\ pc = "constructed"
    /\ kw = "absent"
    /\ bnlog = <<>>
    /\ initlog = <<>>
    /\ addops = <<>>
    /\ result = NoTensor

Init ==
    /\ \E setup \in Setups : Fresh(setup)
    /\ w = NoWeight
    /\ scale = 0
    /\ fn = ""
    /\ loss = NoLoss

\* the harness restores a checkpoint onto the block: kernels created from
\* now on take the restored values
Restore ==
    /\ ~restored
    /\ restored' = TRUE
    /\ UNCHANGED <<block, inputs, built, moving, pc, kw, bnlog, initlog,
                   addops, result, w, scale, fn, loss>>

Invocation(k) == [block |-> block, kw |-> k, restored |-> restored]

\* block(inputs) or block(inputs, training=k)
Call(k) ==
    \E st \in {Forward(Invocation(k), inputs, built, moving)} :
        /\ \A l \in LayerNames : st.moving[l] <= MaxUpdates
        /\ kw' = k
        /\ built' = st.built
        /\ moving' = st.moving
        /\ bnlog' = st.bnlog
        /\ initlog' = st.initlog
        /\ addops' = st.addops
        /\ pc' = IF st.raised = "" THEN "returned" ELSE "raised"
        /\ result' = IF st.raised = "" THEN st.reg["output"]
                     ELSE [err |-> st.raised, shape |-> <<>>, via |-> <<>>]
        /\ UNCHANGED <<block, inputs, restored, w, scale, fn, loss>>

Next == Restore \/ \E k \in Keywords : Call(k)

Spec == Init /\ [][Next]_vars

(***************************************************************************)
(* SpecOrtho: the training framework evaluates a penalty on a kernel.      *)
(***************************************************************************)
Entries == {-1, 0, 1, 2}

Scales == {-1, 0, 3}

Product(shape) == IF Len(shape) = 4 THEN shape[1] * shape[2] * shape[3] * shape[4]
                  ELSE shape[1] * shape[2]

\* the weights evaluated: all zeros, all ones, or ones on the diagonal of
\* the flattened (rows, cout) matrix, with one entry p overwritten by v
Patterns == {"zeros", "ones", "eye"}

PatternEntry(pattern, cout, i) ==
    IF pattern = "zeros" THEN 0
    ELSE IF pattern = "ones" THEN 1
    ELSE IF (i - 1) \div cout = (i - 1) % cout THEN 1 ELSE 0

Weight(shape, pattern, p, v) == [shape |-> shape, pattern |-> pattern, p |-> p, v |-> v]

\* the tensor a weight stands for
TensorOf(wt) ==
    WeightTensor(wt.shape,
                 [i \in 1..Product(wt.shape) |->
                     IF i = wt.p THEN wt.v
                     ELSE PatternEntry(wt.pattern, wt.shape[Len(wt.shape)], i)])

WeightShapes ==
    {<<a, b, c, d>> : a \in 1..MaxAxis, b \in 1..MaxAxis,
                      c \in 1..MaxAxis, d \in 1..MaxAxis}
    \cup {<<c, d>> : c \in 1..MaxAxis, d \in 1..MaxAxis}

ZeroKernel == Weight(<<3, 3, 8, 16>>, "zeros", 1, 0)

InitOrtho ==
    /\ Fresh(<<IdleBlock, <<1, 1, 1, 1>>>>)
    /\ \/ \E sh \in WeightShapes, pattern \in Patterns :
             \E p \in 1..Product(sh), v \in Entries :
                w = Weight(sh, pattern, p, v)
       \/ w = ZeroKernel
    /\ scale \in Scales
    /\ fn = ""
    /\ loss = NoLoss

\* orthogonal_initializer(scale)(w)
CallOrthoInit ==
    /\ fn = ""
    /\ fn' = "orgtho_init"
    /\ loss' = Invoke("orgtho_init", scale, <<TensorOf(w)>>, {})
    /\ UNCHANGED <<w, scale>>
    /\ UNCHANGED blockVars

\* othrogonal_initializer_fc(scale)(w)
CallOrthoInitFc ==
    /\ fn = ""
    /\ fn' = "ortho_init_fc"
    /\ loss' = Invoke("ortho_init_fc", scale, <<TensorOf(w)>>, {})
    /\ UNCHANGED <<w, scale>>
    /\ UNCHANGED blockVars

NextOrtho == CallOrthoInit \/ CallOrthoInitFc

SpecOrtho == InitOrtho /\ [][NextOrtho]_vars

(***************************************************************************)
(* Claims about the blocks, checked under Spec.                            *)
(***************************************************************************)
ScenarioBasic ==
    /\ block = Block("BasicResBlock", 32, <<3, 3>>, "same", <<2, 2>>)
    /\ inputs = <<2, 32, 32, 16>>

ScenarioBottleNeck ==
    /\ block = Block("ResBottleNeckBlock", 16, <<3, 3>>, "same", <<1, 1>>)
    /\ inputs = <<2, 16, 16, 64>>

\* n = ceil(h / s)
CeilDivIs(n, h, s) == (n - 1) * s < h /\ h <= n * s

\* C1: in every block, for all valid construction parameters and inputs,
\* the two operands of the final addition have the same shape, and the
\* addition does not fail on their shapes.
C1_AddOperandsAgree ==
    addops # <<>> => addops[1] = addops[2] /\ result.err # "InvalidArgumentError"

BNSteps == {"bn1", "bn2", "bn3", "res_bn"}

\* C6: the batch-normalization steps bn1, bn2, bn3 and res_bn are given the
\* supplied training keyword, and without one True in BasicResBlock and
\* ResBottleNeckBlock, False in ResidualDeconvBlock.
C6_TrainingDefaults ==
    \A i \in 1..Len(bnlog) :
        bnlog[i].layer \in BNSteps =>
            bnlog[i].arg = IF kw # "absent" THEN kw
                           ELSE IF block.kind = "ResidualDeconvBlock" THEN "False"
                           ELSE "True"

C6_Witness ==
    /\ block.kind = "ResidualDeconvBlock"
    /\ kw = "absent"
    /\ \E i \in 1..Len(bnlog) : bnlog[i].layer = "bn3" /\ bnlog[i].arg = "False"

\* C7: the penalty functions are never invoked while a block is built or
\* run in a forward pass.
C7_PenaltyNotInvokedByBlock ==
    Len(initlog) = 0

\* C8: an invocation of ResidualDeconvBlock that reaches its last statement
\* returns one tensor: the sum of the stage-2 output (bn1, act1, deconv1,
\* bn2, act2, deconv2 applied to the input) and of stage 3 (bn3, act3,
\* deconv3) applied to the stage-2 output.
C8_DeconvReturnsSum ==
    (block.kind = "ResidualDeconvBlock" /\ addops # <<>>)
        => /\ pc = "returned"
           /\ result.shape = addops[1]
           /\ [i \in 1..Len(result.via) |-> result.via[i].layer] =
                 <<"bn1", "act1", "deconv1", "bn2", "act2", "deconv2", "tf.add",
                   "bn1", "act1", "deconv1", "bn2", "act2", "deconv2",
                   "bn3", "act3", "deconv3">>

\* C9: every batch-normalization instance applied in a forward pass is
\* given the invocation's training flag.
C9_EveryBNGetsFlag ==
    \A i \in 1..Len(bnlog) :
        bnlog[i].arg = TrainingFlag(block.kind, kw)

\* what the invocation returns on a block that was never invoked before
FirstOutput(k) ==
    Forward([block |-> block, kw |-> k, restored |-> TRUE], inputs,
            [l \in LayerNames |-> FALSE], [l \in LayerNames |-> 0]).reg["output"]

At4(t, a, b, c, d) ==
    t.flat[(((a - 1) * t.shape[2] + (b - 1)) * t.shape[3] + (c - 1)) * t.shape[4] + d]

Delta(i, j) == IF i = j THEN 1 ELSE 0

\* R_ij of W2^T W2 - I for a rank-4 tensor, summed over its first three axes
R4(t, i, j) ==
    SumUpTo([a \in 1..t.shape[1] |->
        SumUpTo([b \in 1..t.shape[2] |->
            SumUpTo([c \in 1..t.shape[3] |->
                        At4(t, a, b, c, i) * At4(t, a, b, c, j)],
                    t.shape[3])],
                t.shape[2])],
            t.shape[1]) - Delta(i, j)

SumSquaresR4(t) ==
    SumUpTo([i \in 1..t.shape[4] |->
        SumUpTo([j \in 1..t.shape[4] |-> R4(t, i, j) * R4(t, i, j)], t.shape[4])],
            t.shape[4])

\* C4: on a rank-4 weight the convolutional penalty is
\* scale * (sum of R_ij^2) / 2 with R = W2^T W2 - I_cout; an all-zero
\* 3x3x8x16 weight gives 8 * scale.
C4_ConvPenaltyValue ==
    (fn = "orgtho_init" /\ Len(w.shape) = 4)
        => /\ loss.err = ""
           /\ 2 * loss.num = loss.den * scale * SumSquaresR4(TensorOf(w))
           /\ w = ZeroKernel => loss.num = 8 * scale * loss.den

C4_Witness ==
    /\ fn = "orgtho_init"
    /\ w = ZeroKernel
    /\ scale = 3
    /\ loss.err = ""
    /\ loss.num = 24 * loss.den

\* the columns of the weight, flattened to (rows, cout), are orthonormal
Orthonormal(t) ==
    LET cout == t.shape[Len(t.shape)]
        rows == Len(t.flat) \div cout
    IN  \A i \in 1..cout : \A j \in 1..cout :
            SumUpTo([r \in 1..rows |->
                        t.flat[(r - 1) * cout + i] * t.flat[(r - 1) * cout + j]],
                    rows) = Delta(i, j)

\* C5: on a weight with orthonormal columns the convolutional penalty
\* (rank 4) and the dense penalty (rank 2) are 0.
C5_OrthonormalIsFree ==
    ( /\ \/ fn = "orgtho_init" /\ Len(w.shape) = 4
         \/ fn = "ortho_init_fc" /\ Len(w.shape) = 2
      /\ Orthonormal(TensorOf(w)) )
        => loss.err = "" /\ loss.num = 0

C5_Witness ==
    /\ fn = "orgtho_init"
    /\ Len(w.shape) = 4
    /\ w.shape[4] = 2
    /\ Orthonormal(TensorOf(w))
    /\ scale # 0
    /\ loss.err = ""
    /\ loss.num = 0

====
